---- MODULE Spec2Model ----
(***************************************************************************)
(* Model of src/openai_status_tracker.py: FeedTracker polling the OpenAI   *)
(* status Atom feed with conditional GET, an in-memory set of seen entry   *)
(* ids, keyword relevance filtering and product extraction.                *)
(*                                                                         *)
(* Python str values that the code inspects character by character (titles,*)
(* bodies, product names, keywords) are sequences of one-character strings. *)
(* Entry ids and header values are only compared for equality and are kept  *)
(* as TLA+ strings.  A Python dict is a function whose DOMAIN is the set of  *)
(* keys present; an optional value (None or a str) is a sequence of length   *)
(* at most one.                                                              *)
(***************************************************************************)
EXTENDS Integers, Sequences, FiniteSets, TLC

\* ---------------------------------------------------------------- bounds
\* Number of check() calls explored.
MaxCycles == 3
\* Total number of entries delivered over all responses of a run.
MaxFed == 3
\* Longest feed.entries list in the classification of single responses.
ClassifyFeedLen == 2

\* ---------------------------------------------------------------- configuration (lines 37-82)
KNOWN_PRODUCTS ==
  << <<"C", "h", "a", "t", " ", "C", "o", "m", "p", "l", "e", "t", "i", "o", "n", "s">>,
     <<"R", "e", "s", "p", "o", "n", "s", "e", "s", " ", "A", "P", "I">>,
     <<"C", "o", "m", "p", "l", "e", "t", "i", "o", "n", "s">>,
     <<"E", "m", "b", "e", "d", "d", "i", "n", "g", "s">>,
     <<"F", "i", "n", "e", "-", "t", "u", "n", "i", "n", "g">>,
     <<"I", "m", "a", "g", "e", "s">>,
     <<"A", "u", "d", "i", "o">>,
     <<"A", "s", "s", "i", "s", "t", "a", "n", "t", "s">>,
     <<"B", "a", "t", "c", "h", " ", "A", "P", "I">>,
     <<"F", "i", "l", "e", "s", " ", "A", "P", "I">>,
     <<"M", "o", "d", "e", "r", "a", "t", "i", "o", "n">>,
     <<"R", "e", "a", "l", "t", "i", "m", "e", " ", "A", "P", "I">>,
     <<"V", "e", "c", "t", "o", "r", " ", "S", "t", "o", "r", "e", "s">>,
     <<"C", "o", "d", "e", " ", "I", "n", "t", "e", "r", "p", "r", "e", "t", "e", "r">>,
     <<"F", "u", "n", "c", "t", "i", "o", "n", " ", "C", "a", "l", "l", "i", "n", "g">>,
     <<"S", "t", "r", "u", "c", "t", "u", "r", "e", "d", " ", "O", "u", "t", "p", "u", "t", "s">>,
     <<"O", "p", "e", "n", "A", "I", " ", "A", "P", "I">> >>

INCIDENT_KEYWORDS ==
  << <<"i", "n", "c", "i", "d", "e", "n", "t">>,
     <<"o", "u", "t", "a", "g", "e">>,
     <<"d", "e", "g", "r", "a", "d", "e", "d">>,
     <<"d", "e", "g", "r", "a", "d", "a", "t", "i", "o", "n">>,
     <<"d", "i", "s", "r", "u", "p", "t", "i", "o", "n">>,
     <<"p", "a", "r", "t", "i", "a", "l">>,
     <<"i", "n", "v", "e", "s", "t", "i", "g", "a", "t", "i", "n", "g">>,
     <<"i", "d", "e", "n", "t", "i", "f", "i", "e", "d">>,
     <<"m", "o", "n", "i", "t", "o", "r", "i", "n", "g">>,
     <<"r", "e", "s", "o", "l", "v", "e", "d">>,
     <<"u", "p", "d", "a", "t", "e">>,
     <<"e", "l", "e", "v", "a", "t", "e", "d">>,
     <<"e", "r", "r", "o", "r">>,
     <<"l", "a", "t", "e", "n", "c", "y">>,
     <<"u", "n", "a", "v", "a", "i", "l", "a", "b", "l", "e">>,
     <<"d", "o", "w", "n">>,
     <<"f", "a", "i", "l", "u", "r", "e">> >>

GenericLabel == <<"O", "p", "e", "n", "A", "I", " ", "A", "P", "I">>
LabelPrefix == <<"O", "p", "e", "n", "A", "I", " ", "A", "P", "I", " ", "-", " ">>
\* The marker _clean_html appends to a truncated text, one character.
Ellipsis == "U+2026"
\* text[:300] in _clean_html.
TruncateLen == 300
\* The status codes _fetch_feed tells apart.
HTTP_OK == 200
HTTP_NOT_MODIFIED == 304

\* ---------------------------------------------------------------- Python values
None == <<>>
Some(v) == <<v>>
EmptyDict == <<>>
\* dict.get(key, default)
Get(d, key, default) == IF key \in DOMAIN d THEN d[key] ELSE default
\* dict.get(key): None when the key is absent
GetOpt(d, key) == IF key \in DOMAIN d THEN Some(d[key]) ELSE None
\* truth value of an optional str: None and "" are false
Truthy(opt) == opt # None /\ opt[1] # ""

UpperCase == <<"A","B","C","D","E","F","G","H","I","J","K","L","M","N","O","P","Q","R","S","T","U","V","W","X","Y","Z">>
LowerCase == <<"a","b","c","d","e","f","g","h","i","j","k","l","m","n","o","p","q","r","s","t","u","v","w","x","y","z">>
ToLower ==
  [c \in {UpperCase[i] : i \in 1..Len(UpperCase)} |->
     LowerCase[CHOOSE i \in 1..Len(UpperCase) : UpperCase[i] = c]]
LowerChar(c) == IF c \in DOMAIN ToLower THEN ToLower[c] ELSE c
Min(a, b) == IF a < b THEN a ELSE b
\* text[a-1:b], clamped to the text as a Python slice is
Slice(text, a, b) == [i \in 1..(Min(b, Len(text)) - a + 1) |-> text[a + i - 1]]
\* str.lower()
lower(s) == [i \in 1..Len(s) |-> LowerChar(s[i])]
\* sub in s
Contains(sub, s) ==
  \E i \in 0..(Len(s) - Len(sub)) : \A j \in 1..Len(sub) : s[i + j] = sub[j]

\* ---------------------------------------------------------------- helpers (lines 204-225)
\* product.lower() for each product of the list
LoweredProducts == [k \in 1..Len(KNOWN_PRODUCTS) |-> lower(KNOWN_PRODUCTS[k])]
\* the loop of _extract_product from the k-th product on; lowered is combined.lower()
RECURSIVE scan_products(_, _)
scan_products(lowered, k) ==
  IF k > Len(KNOWN_PRODUCTS) THEN GenericLabel
  ELSE IF Contains(LoweredProducts[k], lowered)
    THEN LabelPrefix \o KNOWN_PRODUCTS[k]
    ELSE scan_products(lowered, k + 1)

\* first occurrence of sub in s, or 0
FirstAt(sub, s) ==
  LET at == {i \in 1..(Len(s) - Len(sub) + 1) : SubSeq(s, i, i + Len(sub) - 1) = sub}
  IN  IF at = {} THEN 0 ELSE CHOOSE i \in at : \A j \in at : i <= j
\* Variant: the product that occurs first in the text wins.
extract_product_text_order(title, body) ==
  LET text == lower(title \o <<" ">> \o body)
      found == {k \in 1..Len(KNOWN_PRODUCTS) : Contains(lower(KNOWN_PRODUCTS[k]), text)}
  IN  IF found = {} THEN GenericLabel
      ELSE LET k == CHOOSE a \in found : \A b \in found :
                      \/ FirstAt(lower(KNOWN_PRODUCTS[a]), text) < FirstAt(lower(KNOWN_PRODUCTS[b]), text)
                      \/ /\ FirstAt(lower(KNOWN_PRODUCTS[a]), text) = FirstAt(lower(KNOWN_PRODUCTS[b]), text)
                         /\ a <= b
           IN  LabelPrefix \o KNOWN_PRODUCTS[k]

extract_product(title, body) == scan_products(lower(title \o <<" ">> \o body), 1)

Whitespace == {" ", "\t", "\n", "\r"}
\* End of the match of <[^>]+> that starts at the "<" at position i, or 0:
\* the first ">" after i closes the tag when at least one character precedes it.
TagEnd(raw, i) ==
  LET closers == {j \in (i + 1)..Len(raw) : raw[j] = ">"}
  IN  IF closers = {} THEN 0
      ELSE LET j == CHOOSE c \in closers : \A d \in closers : c <= d
           IN  IF j >= i + 2 THEN j ELSE 0
\* re.sub(r"<[^>]+>", " ", raw) from position i on: the text up to the next
\* match is copied, the match becomes one space, and the scan goes on behind it
RECURSIVE strip_tags(_, _)
strip_tags(raw, i) ==
  LET opens == {j \in i..Len(raw) : raw[j] = "<" /\ TagEnd(raw, j) # 0}
  IN  IF opens = {} THEN Slice(raw, i, Len(raw))
      ELSE LET j == CHOOSE o \in opens : \A q \in opens : o <= q
           IN  Slice(raw, i, j - 1) \o <<" ">> \o strip_tags(raw, TagEnd(raw, j) + 1)
\* re.sub(r"\s+", " ", text) on the positions lo..hi of text: the first
\* character of a whitespace run becomes one space, the rest of the run goes;
\* the range is worked through in halves
RECURSIVE collapse_ws(_, _, _)
collapse_ws(text, lo, hi) ==
  IF lo > hi THEN <<>>
  ELSE IF lo = hi
    THEN IF text[lo] \in Whitespace
           THEN IF lo > 1 /\ text[lo - 1] \in Whitespace THEN <<>> ELSE <<" ">>
           ELSE <<text[lo]>>
    ELSE LET mid == (lo + hi) \div 2
         IN  collapse_ws(text, lo, mid) \o collapse_ws(text, mid + 1, hi)
\* str.strip() of a text whose whitespace runs are already single spaces
strip(text) ==
  LET a == IF text # <<>> /\ text[1] \in Whitespace THEN 2 ELSE 1
      b == IF text # <<>> /\ text[Len(text)] \in Whitespace THEN Len(text) - 1 ELSE Len(text)
  IN  Slice(text, a, b)
\* Variant: the marker is appended from the limit on, not only beyond it.
clean_html_marks_at_limit(raw) ==
  LET stripped == strip_tags(raw, 1)
      text == strip(collapse_ws(stripped, 1, Len(stripped)))
  IN  Slice(text, 1, TruncateLen) \o (IF Len(text) >= TruncateLen THEN <<Ellipsis>> ELSE <<>>)

\* _clean_html, lines 216-225
clean_html(raw) ==
  LET stripped == strip_tags(raw, 1)
      text == strip(collapse_ws(stripped, 1, Len(stripped)))
  IN  Slice(text, 1, TruncateLen) \o (IF Len(text) > TruncateLen THEN <<Ellipsis>> ELSE <<>>)

\* ---------------------------------------------------------------- _process_entry (lines 149-171)
\* body: entry.summary, else entry.content[0].value
entry_body(entry) ==
  LET summary == Get(entry, "summary", <<>>)
      content == Get(entry, "content", <<>>)
  IN  IF summary = <<>> /\ content # <<>> THEN Get(content[1], "value", <<>>) ELSE summary
combined_text(entry) == lower(Get(entry, "title", <<>>) \o <<" ">> \o entry_body(entry))
\* Variant: the keywords are matched against the text as written, not lower-cased.
is_incident_cased(entry) ==
  LET text == Get(entry, "title", <<>>) \o <<" ">> \o entry_body(entry)
  IN  \E k \in 1..Len(INCIDENT_KEYWORDS) : Contains(INCIDENT_KEYWORDS[k], text)

\* any(kw in combined_text for kw in INCIDENT_KEYWORDS)
is_incident(entry) ==
  LET text == combined_text(entry)
  IN  \E k \in 1..Len(INCIDENT_KEYWORDS) : Contains(INCIDENT_KEYWORDS[k], text)
\* The printed alert (the timestamp line is not modelled); cycle and idx identify
\* the check() call and the position in feed.entries of the entry printed.
alert(entry, c, idx) ==
  LET title == Get(entry, "title", <<>>)
      body == entry_body(entry)
      cleaned == clean_html(body)
  IN  [cycle |-> c, idx |-> idx,
       product |-> extract_product(title, body),
       status |-> IF cleaned # <<>> THEN cleaned ELSE title]

\* ---------------------------------------------------------------- inputs
\* Texts of feed entries: one that names a product and an incident keyword, and
\* one that has neither.
T_AudioDown == <<"A", "u", "d", "i", "o", " ", "D", "O", "W", "N">>
T_Notice == <<"N", "o", "t", "i", "c", "e">>
\* The entries a feed can carry: an incident without an id, with an empty id and
\* with id "a", and the entry "a" in an edition whose text is no incident.
Entries ==
  { [title |-> T_AudioDown],
    [id |-> "", title |-> T_AudioDown],
    [id |-> "a", title |-> T_AudioDown],
    [id |-> "a", title |-> T_Notice] }
\* Texts for the classification of single entries.
T_Elevated == <<"E", "l", "e", "v", "a", "t", "e", "d", " ", "e", "r", "r", "o", "r", " ", "r", "a", "t", "e", "s", " ", "f", "o", "r", " ", "E", "m", "b", "e", "d", "d", "i", "n", "g", "s">>
T_Maintenance == <<"S", "c", "h", "e", "d", "u", "l", "e", "d", " ", "m", "a", "i", "n", "t", "e", "n", "a", "n", "c", "e", " ", "w", "i", "n", "d", "o", "w">>
T_Images == <<"I", "m", "a", "g", "e", "s">>
T_ChatUpper == <<"C", "H", "A", "T", " ", "C", "O", "M", "P", "L", "E", "T", "I", "O", "N", "S">>
T_EmbeddingsDown == <<"e", "m", "b", "e", "d", "d", "i", "n", "g", "s", " ", "D", "O", "W", "N">>
T_ImagesMarkup == <<"<", "p", ">", "I", "m", "a", "g", "e", "s", " ", " ", " ", "O", "u", "t", "a", "g", "e", "<", "/", "p", ">">>
T_LoginOutage == <<"l", "o", "g", "i", "n", " ", "o", "u", "t", "a", "g", "e">>
\* Entries whose title, summary and content vary: each key present or absent.
RichTitles == {EmptyDict, [title |-> T_Elevated], [title |-> T_Maintenance],
               [title |-> T_Images], [title |-> T_ChatUpper]}
RichSummaries == {EmptyDict, [summary |-> T_EmbeddingsDown], [summary |-> T_ImagesMarkup]}
RichContents == {EmptyDict, [content |-> <<[value |-> T_LoginOutage]>>]}
RichEntries == {a @@ b @@ c : a \in RichTitles, b \in RichSummaries, c \in RichContents}
HeaderSets ==
  {e @@ m : e \in {EmptyDict, "ETag" :> "", "ETag" :> "e1"},
            m \in {EmptyDict, "Last-Modified" :> "", "Last-Modified" :> "d1"}}

\* ---------------------------------------------------------------- state
\* pc: where run() is: "start" before the first check, "request" with the GET
\*   issued, "response" with its outcome at hand, "process" in the loop of
\*   check, "sleep" in time.sleep, "stopped" after SIGINT.
\* cycle: number of check() calls begun; fed: entries delivered so far.
\* headers: the request headers of the latest GET; response: the latest outcome
\*   of a GET, a sequence holding the response (or the exception) once one has
\*   arrived; while pc = "request" it is still the outcome of the GET before.
\* feed, new_entries, pos: feed.entries, the positions in it of the new entries,
\*   and how many of these the loop has still to process.
\* seen_at_filter: seen_ids as line 141 read it.
\* out: the alerts printed so far, oldest first.
\* event_log: the Event Log of the design, the bounded buffer of records that
\*   readers take snapshots of; the tracker of this file prints and never appends.
\* appended: how many records have been appended to event_log so far.
\* repeated: the response at hand is a 200 whose entries are those of the response
\*   before it, a 200 as well.
VARIABLES pc, cycle, fed, seen_ids, etag, last_modified, headers, response,
          feed, new_entries, pos, seen_at_filter, out, event_log, appended,
          repeated

vars == <<pc, cycle, fed, seen_ids, etag, last_modified, headers, response,
          feed, new_entries, pos, seen_at_filter, out, event_log, appended,
          repeated>>

tracker == <<seen_ids, etag, last_modified>>
locals == <<feed, new_entries, pos, seen_at_filter>>
logstate == <<event_log, appended>>
answer == <<response, repeated>>

Init ==
  /\ pc = "start"
  /\ cycle = 0
  /\ fed = 0
  /\ seen_ids = {}
  /\ etag = None
  /\ last_modified = None
  /\ headers = EmptyDict
  /\ response = <<>>
  /\ feed = <<>>
  /\ new_entries = <<>>
  /\ pos = 0
  /\ seen_at_filter = {}
  /\ out = <<>>
  /\ event_log = <<>>
  /\ appended = 0
  /\ repeated = FALSE

\* Variant: a header is sent for every validator that is not None, "" included.
request_headers_present ==
  (IF etag # None THEN "If-None-Match" :> etag[1] ELSE EmptyDict)
  @@ (IF last_modified # None THEN "If-Modified-Since" :> last_modified[1] ELSE EmptyDict)

\* lines 106-113: the conditional request headers, then the GET is issued
request_headers ==
  (IF Truthy(etag) THEN "If-None-Match" :> etag[1] ELSE EmptyDict)
  @@ (IF Truthy(last_modified) THEN "If-Modified-Since" :> last_modified[1] ELSE EmptyDict)

SendRequest ==
  /\ cycle < MaxCycles
  /\ cycle' = cycle + 1
  /\ headers' = request_headers
  /\ pc' = "request"
  /\ UNCHANGED <<fed, tracker, answer, locals, out, logstate>>

\* run(), line 180: the first check is made at once
FirstCheck == pc = "start" /\ SendRequest

\* Variant: checks are started by a timer, whether or not the last one returned.
NextCheck_overlapping == pc \in {"sleep", "process"} /\ SendRequest

\* run(), lines 182-184: time.sleep returns and check is called again
NextCheck == pc = "sleep" /\ SendRequest

\* line 113: session.get raises requests.RequestException (unreachable, timeout)
ReceiveException ==
  /\ pc = "request"
  /\ response' = <<[raised |-> TRUE]>>
  /\ repeated' = FALSE
  /\ pc' = "response"
  /\ UNCHANGED <<cycle, fed, tracker, headers, locals, out, logstate>>

\* line 113: session.get returns a 304 or, as a status that is neither 200 nor
\* 304, a 503, with headers out of hs; its body is not read
ReceiveStatusFrom(hs) ==
  /\ pc = "request"
  /\ \E s \in {HTTP_NOT_MODIFIED, 503}, h \in hs :
       response' = <<[raised |-> FALSE, status_code |-> s, headers |-> h, entries |-> <<>>]>>
  /\ repeated' = FALSE
  /\ pc' = "response"
  /\ UNCHANGED <<cycle, fed, tracker, headers, locals, out, logstate>>

ReceiveStatus == ReceiveStatusFrom(HeaderSets)

\* line 113: session.get returns a 200 with headers out of hs, whose body
\* feedparser.parse (line 133) reads as the entries p out of es, in feed order
ReceiveFeedFrom(hs, es) ==
  /\ pc = "request"
  /\ \E h \in hs, k \in 0..(MaxFed - fed) :
       \E p \in [1..k -> es] :
         /\ response' = <<[raised |-> FALSE, status_code |-> HTTP_OK, headers |-> h, entries |-> p]>>
         /\ fed' = fed + k
         /\ repeated' = /\ response # <<>>
                         /\ ~response[1].raised
                         /\ response[1].status_code = HTTP_OK
                         /\ response[1].entries = p
  /\ pc' = "response"
  /\ UNCHANGED <<cycle, tracker, headers, locals, out, logstate>>

ReceiveFeed == ReceiveFeedFrom(HeaderSets, Entries)

\* lines 138-139: _fetch_feed returned None and check returns at once
EndCycle ==
  /\ pc' = "sleep"
  /\ UNCHANGED <<cycle, fed, tracker, headers, answer, locals, out, logstate>>

\* Variant: the exception is not caught and run() dies with it.
FetchRaised_uncaught ==
  /\ pc = "response" /\ response[1].raised
  /\ pc' = "crashed"
  /\ UNCHANGED <<cycle, fed, tracker, headers, answer, locals, out, logstate>>

\* lines 114-116 and 138-139
FetchRaised ==
  /\ pc = "response" /\ response[1].raised
  /\ EndCycle

\* Variant: the validators are cached before the status is looked at.
FetchNotModified_caches ==
  /\ pc = "response" /\ ~response[1].raised
  /\ response[1].status_code = HTTP_NOT_MODIFIED
  /\ etag' = GetOpt(response[1].headers, "ETag")
  /\ last_modified' = GetOpt(response[1].headers, "Last-Modified")
  /\ pc' = "sleep"
  /\ UNCHANGED <<cycle, fed, seen_ids, headers, answer, locals, out, logstate>>

\* lines 118-120 and 138-139
FetchNotModified ==
  /\ pc = "response" /\ ~response[1].raised
  /\ response[1].status_code = HTTP_NOT_MODIFIED
  /\ EndCycle

\* Variant: an unexpected status drops the cached validators.
FetchUnexpected_resets ==
  /\ pc = "response" /\ ~response[1].raised
  /\ response[1].status_code # HTTP_NOT_MODIFIED
  /\ response[1].status_code # HTTP_OK
  /\ etag' = None
  /\ last_modified' = None
  /\ pc' = "sleep"
  /\ UNCHANGED <<cycle, fed, seen_ids, headers, answer, locals, out, logstate>>

\* lines 122-127 and 138-139
FetchUnexpected ==
  /\ pc = "response" /\ ~response[1].raised
  /\ response[1].status_code # HTTP_NOT_MODIFIED
  /\ response[1].status_code # HTTP_OK
  /\ EndCycle

\* Variant: nothing is filtered.
filter_new_all(entries, seen, i) == [k \in 1..(Len(entries) - i + 1) |-> i + k - 1]

\* Variant: a missing id is looked up as "", as line 145 reads it.
RECURSIVE filter_new_default(_, _, _)
filter_new_default(entries, seen, i) ==
  IF i > Len(entries) THEN <<>>
  ELSE IF Get(entries[i], "id", "") \in seen
    THEN filter_new_default(entries, seen, i + 1)
    ELSE <<i>> \o filter_new_default(entries, seen, i + 1)

\* line 141: positions in feed.entries of the entries whose id is not in seen_ids
RECURSIVE filter_new(_, _, _)
filter_new(entries, seen, i) ==
  IF i > Len(entries) THEN <<>>
  ELSE IF "id" \in DOMAIN entries[i] /\ entries[i].id \in seen
    THEN filter_new(entries, seen, i + 1)
    ELSE <<i>> \o filter_new(entries, seen, i + 1)

\* Variant: a validator whose header is missing keeps its old value.
FetchOK_preserves ==
  /\ pc = "response" /\ ~response[1].raised
  /\ response[1].status_code = HTTP_OK
  /\ etag' = IF "ETag" \in DOMAIN response[1].headers
               THEN Some(response[1].headers["ETag"]) ELSE etag
  /\ last_modified' = IF "Last-Modified" \in DOMAIN response[1].headers
                        THEN Some(response[1].headers["Last-Modified"]) ELSE last_modified
  /\ feed' = response[1].entries
  /\ seen_at_filter' = seen_ids
  /\ new_entries' = filter_new(response[1].entries, seen_ids, 1)
  /\ pos' = Len(new_entries')
  /\ pc' = "process"
  /\ UNCHANGED <<cycle, fed, seen_ids, headers, answer, out, logstate>>

\* lines 129-133 and 137-141
FetchOK ==
  /\ pc = "response" /\ ~response[1].raised
  /\ response[1].status_code = HTTP_OK
  /\ etag' = GetOpt(response[1].headers, "ETag")
  /\ last_modified' = GetOpt(response[1].headers, "Last-Modified")
  /\ feed' = response[1].entries
  /\ seen_at_filter' = seen_ids
  /\ new_entries' = filter_new(response[1].entries, seen_ids, 1)
  /\ pos' = Len(new_entries')
  /\ pc' = "process"
  /\ UNCHANGED <<cycle, fed, seen_ids, headers, answer, out, logstate>>

\* Variant: the loop runs over new_entries in feed order.
ProcessEntry_forward ==
  /\ pc = "process" /\ pos > 0
  /\ LET idx == new_entries[Len(new_entries) - pos + 1]
         entry == feed[idx]
     IN  /\ seen_ids' = seen_ids \cup {Get(entry, "id", "")}
         /\ out' = IF is_incident(entry) THEN Append(out, alert(entry, cycle, idx)) ELSE out
  /\ pos' = pos - 1
  /\ UNCHANGED <<pc, cycle, fed, etag, last_modified, headers, answer,
                 feed, new_entries, seen_at_filter, logstate>>

\* Variant: the set keeps the id of the entry at hand only.
ProcessEntry_latest ==
  /\ pc = "process" /\ pos > 0
  /\ LET idx == new_entries[pos]
         entry == feed[idx]
     IN  /\ seen_ids' = {Get(entry, "id", "")}
         /\ out' = IF is_incident(entry) THEN Append(out, alert(entry, cycle, idx)) ELSE out
  /\ pos' = pos - 1
  /\ UNCHANGED <<pc, cycle, fed, etag, last_modified, headers, answer,
                 feed, new_entries, seen_at_filter, logstate>>

\* Variant: the entry is classified first and marked seen only when relevant.
ProcessEntry_relevant_only ==
  /\ pc = "process" /\ pos > 0
  /\ LET idx == new_entries[pos]
         entry == feed[idx]
     IN  IF is_incident(entry)
           THEN /\ seen_ids' = seen_ids \cup {Get(entry, "id", "")}
                /\ out' = Append(out, alert(entry, cycle, idx))
           ELSE UNCHANGED <<seen_ids, out>>
  /\ pos' = pos - 1
  /\ UNCHANGED <<pc, cycle, fed, etag, last_modified, headers, answer,
                 feed, new_entries, seen_at_filter, logstate>>

\* lines 144-147, one iteration of the loop over reversed(new_entries)
ProcessEntry ==
  /\ pc = "process" /\ pos > 0
  /\ LET idx == new_entries[pos]
         entry == feed[idx]
     IN  /\ seen_ids' = seen_ids \cup {Get(entry, "id", "")}
         /\ out' = IF is_incident(entry) THEN Append(out, alert(entry, cycle, idx)) ELSE out
  /\ pos' = pos - 1
  /\ UNCHANGED <<pc, cycle, fed, etag, last_modified, headers, answer,
                 feed, new_entries, seen_at_filter, logstate>>

\* check() returns after the loop
EndCheck ==
  /\ pc = "process" /\ pos = 0
  /\ pc' = "sleep"
  /\ feed' = <<>> /\ new_entries' = <<>> /\ seen_at_filter' = {}
  /\ UNCHANGED <<cycle, fed, tracker, headers, answer, pos, out, logstate>>

\* lines 232-234: SIGINT ends the process
Shutdown ==
  /\ pc # "stopped"
  /\ pc' = "stopped"
  /\ UNCHANGED <<cycle, fed, tracker, headers, answer, locals, out, logstate>>

Next ==
  \/ FirstCheck
  \/ NextCheck
  \/ ReceiveException
  \/ ReceiveStatus
  \/ ReceiveFeed
  \/ FetchRaised
  \/ FetchNotModified
  \/ FetchUnexpected
  \/ FetchOK
  \/ ProcessEntry
  \/ EndCheck
  \/ Shutdown

Spec == Init /\ [][Next]_vars

\* The run of the loop under the scheduling the code relies on: each step of the
\* program is taken once it can be (the GET returns or times out, timeout=15;
\* time.sleep returns), and SIGINT may arrive at any time.  The responses are
\* drawn from one header set and from payloads of two entries.
LiveHeaderSets == {("ETag" :> "e1") @@ ("Last-Modified" :> "d1")}
LiveEntries == {[title |-> T_AudioDown], [id |-> "a", title |-> T_Notice]}
LiveReceiveStatus == ReceiveStatusFrom(LiveHeaderSets)
LiveReceiveFeed == ReceiveFeedFrom(LiveHeaderSets, LiveEntries)

LiveProgram ==
  \/ FirstCheck
  \/ NextCheck
  \/ ReceiveException
  \/ LiveReceiveStatus
  \/ LiveReceiveFeed
  \/ FetchRaised
  \/ FetchNotModified
  \/ FetchUnexpected
  \/ FetchOK
  \/ ProcessEntry
  \/ EndCheck

LiveNext ==
  \/ LiveProgram
  \/ Shutdown

LiveSpec == Init /\ [][LiveNext]_vars /\ WF_vars(LiveProgram)

\* The first check() of a run, in its loop over the entries of a response whose
\* entries have no id and vary in title, summary and content.
InitClassify ==
  /\ pc = "process"
  /\ cycle = 1
  /\ seen_ids = {}
  /\ etag = None
  /\ last_modified = None
  /\ headers = EmptyDict
  /\ \E k \in 1..ClassifyFeedLen : feed \in [1..k -> RichEntries]
  /\ fed = Len(feed)
  /\ response = <<[raised |-> FALSE, status_code |-> HTTP_OK, headers |-> EmptyDict,
                   entries |-> feed]>>
  /\ new_entries = filter_new(feed, {}, 1)
  /\ pos = Len(new_entries)
  /\ seen_at_filter = {}
  /\ out = <<>>
  /\ event_log = <<>>
  /\ appended = 0
  /\ repeated = FALSE

NextClassify ==
  \/ ProcessEntry
  \/ EndCheck

SpecClassify == InitClassify /\ [][NextClassify]_vars

\* The first check() of a run, in its loop over a response of one entry whose
\* title has a keyword and whose summary is a body without markup: n characters
\* laid out after one of the patterns below, n around 0, around the truncation
\* length, and LongBody.
LongBody == 1000
BodyPatterns == {"solid", "words", "runs", "padded", "sparse", "blank"}
BodyLengths == (0..3) \cup ((TruncateLen - 2)..(TruncateLen + 4)) \cup {LongBody}
PlainBody(pattern, n) ==
  [i \in 1..n |->
     CASE pattern = "solid"  -> "x"
       [] pattern = "words"  -> IF i % 4 = 0 THEN " " ELSE "x"
       [] pattern = "runs"   -> IF i % 5 = 0 THEN "\n" ELSE IF i % 5 = 1 /\ i > 1 THEN "\t" ELSE "x"
       [] pattern = "padded" -> IF i <= 2 \/ i > n - 2 THEN " " ELSE "x"
       [] pattern = "sparse" -> IF i % 10 = 0 THEN "x" ELSE " "
       [] pattern = "blank"  -> " "]
PlainBodies == {PlainBody(pattern, n) : pattern \in BodyPatterns, n \in BodyLengths}

InitTruncate ==
  /\ pc = "process"
  /\ cycle = 1
  /\ seen_ids = {}
  /\ etag = None
  /\ last_modified = None
  /\ headers = EmptyDict
  /\ \E body \in PlainBodies : feed = <<[title |-> T_AudioDown, summary |-> body]>>
  /\ fed = Len(feed)
  /\ response = <<[raised |-> FALSE, status_code |-> HTTP_OK, headers |-> EmptyDict,
                   entries |-> feed]>>
  /\ new_entries = filter_new(feed, {}, 1)
  /\ pos = Len(new_entries)
  /\ seen_at_filter = {}
  /\ out = <<>>
  /\ event_log = <<>>
  /\ appended = 0
  /\ repeated = FALSE

SpecTruncate == InitTruncate /\ [][NextClassify]_vars

\* ---------------------------------------------------------------- Event Log
\* The Event Log is not part of src/openai_status_tracker.py, whose
\* _process_entry prints the record (lines 167-171) and keeps none; the log is
\* modelled from the design document, sections 3 and 4.6.
MaxAppends == 600
LogCap == 500

\* variant: a full log drops the record it is given instead of its oldest one
append_record_keep_oldest(log, record) ==
  IF Len(log) >= LogCap THEN log ELSE Append(log, record)

\* append(record): the record goes to the end; when the length then exceeds
\* the cap the oldest records leave from the front
append_record(log, record) ==
  LET grown == Append(log, record)
  IN  IF Len(grown) > LogCap
        THEN [k \in 1..LogCap |-> grown[k + Len(grown) - LogCap]]
        ELSE grown

\* one append; the record carries its sequence number, which identifies it
AppendRecord ==
  /\ appended < MaxAppends
  /\ appended' = appended + 1
  /\ event_log' = append_record(event_log, [seq |-> appended + 1])
  /\ UNCHANGED <<pc, cycle, fed, tracker, headers, answer, locals, out>>

SpecLog == Init /\ [][AppendRecord]_vars

\* ---------------------------------------------------------------- properties
Range(seq) == {seq[k] : k \in 1..Len(seq)}
\* the records printed by the check() call in progress
ThisCycle == {k \in 1..Len(out) : out[k].cycle = cycle}
\* the outcome at hand is an exception or a status other than 200 and 304
Failed ==
  /\ response # <<>>
  /\ \/ response[1].raised
     \/ /\ ~response[1].raised
        /\ response[1].status_code # HTTP_OK
        /\ response[1].status_code # HTTP_NOT_MODIFIED
Answered(status) ==
  /\ response # <<>>
  /\ ~response[1].raised
  /\ response[1].status_code = status
\* the conditional headers a request must carry for the validators stored
CarriesValidators(hdrs, e, m) ==
  /\ ("If-None-Match" \in DOMAIN hdrs) <=> (e # <<>> /\ e[1] # "")
  /\ ("If-None-Match" \in DOMAIN hdrs) => hdrs["If-None-Match"] = e[1]
  /\ ("If-Modified-Since" \in DOMAIN hdrs) <=> (m # <<>> /\ m[1] # "")
  /\ ("If-Modified-Since" \in DOMAIN hdrs) => hdrs["If-Modified-Since"] = m[1]

\* C1: an entry whose id is in the seen set when a cycle starts is never printed
\* by that cycle, however often and in whatever payload it is presented again.
C1_DedupAcrossCycles ==
  pc = "process" =>
    \A k \in ThisCycle :
      ~ ("id" \in DOMAIN feed[out[k].idx] /\ feed[out[k].idx].id \in seen_at_filter)

\* An incident whose id was seen before this cycle is in the payload, earlier
\* cycles printed alerts, and the loop over this payload has finished.
C1_Witness ==
  /\ pc = "process" /\ pos = 0 /\ cycle >= 2
  /\ \E i \in 1..Len(feed) :
       /\ "id" \in DOMAIN feed[i] /\ feed[i].id = "a" /\ "a" \in seen_at_filter
       /\ is_incident(feed[i])
  /\ \E k \in 1..Len(out) : out[k].cycle < cycle

\* C2: an entry whose id is in the seen set at the moment the loop processes it
\* is not printed, a second entry with the id of an earlier entry of the same
\* payload included.
C2_NeverEmitSeen ==
  [][ (pc = "process" /\ pos > 0
        /\ "id" \in DOMAIN feed[new_entries[pos]]
        /\ feed[new_entries[pos]].id \in seen_ids)
      => out' = out ]_vars

\* C3: issuing a request and receiving its answer change neither the seen set
\* nor the validators nor the output, and handling a 304 ends the cycle at once
\* and leaves them as they were too.
C3_NotModifiedIdempotent ==
  [][ /\ (pc' \in {"request", "response"} /\ pc' # pc)
         => /\ seen_ids' = seen_ids
            /\ etag' = etag
            /\ last_modified' = last_modified
            /\ out' = out
      /\ (pc = "response" /\ Answered(HTTP_NOT_MODIFIED))
         => /\ pc' \in {"sleep", "stopped"}
            /\ seen_ids' = seen_ids
            /\ etag' = etag
            /\ last_modified' = last_modified
            /\ out' = out ]_vars

\* A 304 that carried no ETag has been handled while an ETag was stored, ids were
\* seen and alerts printed.
C3_Witness ==
  /\ pc = "sleep" /\ Answered(HTTP_NOT_MODIFIED)
  /\ "ETag" \notin DOMAIN response[1].headers
  /\ etag = <<"e1">>
  /\ seen_ids # {} /\ out # <<>>

\* C4: handling an exception or a status other than 200 and 304 ends the cycle
\* with the seen set, both validators and the output as they were, and the next
\* request is issued with these validators.
C4_FetchFailureKeepsState ==
  [][ /\ (pc = "response" /\ Failed)
         => /\ pc' \in {"sleep", "stopped"}
            /\ seen_ids' = seen_ids
            /\ etag' = etag
            /\ last_modified' = last_modified
            /\ out' = out
      /\ (pc = "sleep" /\ Failed /\ pc' = "request")
         => /\ seen_ids' = seen_ids
            /\ etag' = etag
            /\ last_modified' = last_modified
            /\ out' = out
            /\ CarriesValidators(headers', etag, last_modified) ]_vars

\* After a failed cycle the next request has been issued, carrying the ETag that
\* was stored before the failure.
C4_Witness ==
  /\ pc = "request" /\ Failed
  /\ etag = <<"e1">> /\ last_modified = <<"d1">>
  /\ "If-None-Match" \in DOMAIN headers /\ "If-Modified-Since" \in DOMAIN headers
  /\ seen_ids # {} /\ out # <<>>

\* C5: alerts of an earlier cycle precede those of a later one; within a cycle
\* they are printed from the last position of the feed to the first, and what the
\* loop has still to process lies before everything it has printed.
C5_ChronologicalOrder ==
  /\ \A k, l \in 1..Len(out) :
       k < l => \/ out[k].cycle < out[l].cycle
                \/ out[k].cycle = out[l].cycle /\ out[k].idx > out[l].idx
  /\ pc = "process" =>
       \A k \in ThisCycle : \A j \in 1..pos : out[k].idx > new_entries[j]

\* A payload of three new incidents has been printed: position 3 first, 1 last.
C5_Witness ==
  /\ pc = "process" /\ pos = 0
  /\ Len(feed) = 3 /\ Len(out) = 3
  /\ out[1].idx = 3 /\ out[2].idx = 2 /\ out[3].idx = 1

\* the lower-cased "title body" of an entry contains one of the keywords
HasKeyword(entry) ==
  LET title == IF "title" \in DOMAIN entry THEN entry.title ELSE <<>>
      text == lower(title \o <<" ">> \o entry_body(entry))
  IN  \E kw \in Range(INCIDENT_KEYWORDS) : Contains(kw, text)
IsNew(entry) == ~ ("id" \in DOMAIN entry /\ entry.id \in seen_at_filter)

\* C6: when the loop over a payload has finished, each new entry whose text
\* contains a keyword has exactly one alert of this cycle, each other new entry
\* none.
C6_RelevanceFilter ==
  (pc = "process" /\ pos = 0) =>
    \A i \in 1..Len(feed) :
      IsNew(feed[i]) =>
        Cardinality({k \in ThisCycle : out[k].idx = i})
          = (IF HasKeyword(feed[i]) THEN 1 ELSE 0)

\* A payload of an entry without keyword and an entry whose only keyword is in
\* upper case in its summary has been processed: one alert, for the second.
C6_Witness ==
  /\ pc = "process" /\ pos = 0 /\ Len(feed) = 2
  /\ feed[1] = [title |-> T_Maintenance]
  /\ feed[2] = [title |-> T_Images, summary |-> T_EmbeddingsDown]
  /\ Len(out) = 1 /\ out[1].idx = 2

\* the label of the product that comes first in KNOWN_PRODUCTS among those that
\* occur in the lower-cased "title body"
ListOrderProduct(entry) ==
  LET title == IF "title" \in DOMAIN entry THEN entry.title ELSE <<>>
      text == lower(title \o <<" ">> \o entry_body(entry))
      found == {j \in 1..Len(KNOWN_PRODUCTS) : Contains(LoweredProducts[j], text)}
  IN  IF found = {} THEN <<"O", "p", "e", "n", "A", "I", " ", "A", "P", "I">>
      ELSE <<"O", "p", "e", "n", "A", "I", " ", "A", "P", "I", " ", "-", " ">>
             \o KNOWN_PRODUCTS[CHOOSE j \in found : \A i \in found : j <= i]

\* C7: every alert names the product that is first in KNOWN_PRODUCTS among those
\* occurring in its entry's text, whatever their order in the text, and the bare
\* label when none occurs.
C7_ProductByListOrder ==
  pc = "process" =>
    \A k \in ThisCycle : out[k].product = ListOrderProduct(feed[out[k].idx])

\* An alert for "Images" + "embeddings DOWN" names Embeddings, and another one
\* names no product.
C7_Witness ==
  /\ pc = "process" /\ Len(out) = 2
  /\ feed[out[1].idx] = [title |-> T_Images, summary |-> T_EmbeddingsDown]
  /\ out[1].product = LabelPrefix \o KNOWN_PRODUCTS[4]
  /\ feed[out[2].idx] = [title |-> T_Maintenance, content |-> <<[value |-> T_LoginOutage]>>]
  /\ out[2].product = GenericLabel

\* C8: from the moment a 200 has been handled until the next response arrives,
\* each stored validator is the header of that 200, and None when the 200 did
\* not carry the header.
C8_ValidatorsReplaced ==
  (pc \in {"process", "sleep", "request"} /\ Answered(HTTP_OK)) =>
    /\ etag = (IF "ETag" \in DOMAIN response[1].headers
                 THEN <<response[1].headers["ETag"]>> ELSE <<>>)
    /\ last_modified = (IF "Last-Modified" \in DOMAIN response[1].headers
                          THEN <<response[1].headers["Last-Modified"]>> ELSE <<>>)

\* The request carried both validators, the 200 that answered it carried neither
\* header, and both validators are None.
C8_Witness ==
  /\ pc = "sleep" /\ Answered(HTTP_OK)
  /\ "If-None-Match" \in DOMAIN headers /\ "If-Modified-Since" \in DOMAIN headers
  /\ DOMAIN response[1].headers = {}
  /\ etag = <<>> /\ last_modified = <<>>

\* C9 as stated: every entry whose id is missing or empty is among the new
\* entries of its cycle.
C9_EmptyOrMissingAlwaysNew ==
  pc = "process" =>
    \A i \in 1..Len(feed) :
      ("id" \notin DOMAIN feed[i] \/ feed[i].id = "") => i \in Range(new_entries)

\* C9 amended: an entry without id is always among the new entries; an entry
\* whose id is "" is among them exactly when "" is not in the seen set.
C9_MissingAlwaysNew ==
  pc = "process" =>
    \A i \in 1..Len(feed) :
      /\ "id" \notin DOMAIN feed[i] => i \in Range(new_entries)
      /\ ("id" \in DOMAIN feed[i] /\ feed[i].id = "")
           => (i \in Range(new_entries) <=> "" \notin seen_at_filter)

\* With "" in the seen set, a payload holds an entry without id, taken as new,
\* and an entry with id "", filtered out.
C9_Witness ==
  /\ pc = "process" /\ "" \in seen_at_filter
  /\ \E i, j \in 1..Len(feed) :
       /\ "id" \notin DOMAIN feed[i] /\ i \in Range(new_entries)
       /\ "id" \in DOMAIN feed[j] /\ feed[j].id = "" /\ j \notin Range(new_entries)

C11_BoundedLog ==
  /\ Len(event_log) <= LogCap
  /\ Len(event_log) = Min(appended, LogCap)
  /\ \A k \in 1..Len(event_log) :
       event_log[k].seq = appended - Len(event_log) + k

\* 600 appends done: 500 records are kept, numbers 101 to 600
C11_Witness ==
  /\ appended = 600
  /\ Len(event_log) = 500
  /\ event_log[1].seq = 101
  /\ event_log[500].seq = 600

\* a check is in progress: between its request and its return to run()
Checking == pc \in {"request", "response", "process"}

\* C12: the first check starts at once from the start of run(), with no sleep
\* before it; each later check starts from the sleep of run(), which is entered
\* only when the check before it has returned; a check never starts while
\* another is in progress.
C12_CycleScheduling ==
  /\ [](pc \in {"start", "sleep"} => (pc = "start" <=> cycle = 0))
  /\ [][/\ (cycle' # cycle) =>
              /\ cycle' = cycle + 1
              /\ ~Checking /\ pc' = "request"
              /\ (cycle = 0 /\ pc = "start") \/ (cycle > 0 /\ pc = "sleep")
        /\ (pc' = "request" /\ pc # "request") => cycle' = cycle + 1
        /\ (pc' = "sleep" /\ pc # "sleep") =>
              \/ pc = "response"
              \/ pc = "process" /\ pos = 0
       ]_vars

\* run() sleeps after its third check, the one before having printed alerts
C12_Witness == pc = "sleep" /\ cycle = 3 /\ out # <<>>

\* C14: no step of the tracker removes an identifier from the seen set.
C14_SeenSetMonotonic == [][seen_ids \subseteq seen_ids']_vars

\* A cycle answered 304, by an error status or by an exception has returned and
\* the seen set holds what the cycles before it put there.
C14_Witness ==
  /\ pc = "sleep" /\ cycle >= 2
  /\ seen_ids = {"", "a"}
  /\ Failed \/ Answered(HTTP_NOT_MODIFIED)

\* the value of a response header as a validator: absent is None
HeaderOf(r, name) == IF name \in DOMAIN r.headers THEN <<r.headers[name]>> ELSE <<>>

\* C15: a request in flight carries If-None-Match exactly when the stored ETag
\* is a non-empty string, If-Modified-Since exactly when the stored
\* Last-Modified is one, each with the stored value.  The first request carries
\* neither; a request that follows a 200 carries the non-empty validators of
\* that 200; a request that follows any other outcome carries what the request
\* before it carried, hence the validators of the most recent 200.
C15_ConditionalHeaders ==
  /\ [](pc = "request" => CarriesValidators(headers, etag, last_modified))
  /\ [][(pc' = "request" /\ pc # "request") =>
          IF cycle = 0 THEN headers' = EmptyDict
          ELSE IF Answered(HTTP_OK)
            THEN CarriesValidators(headers', HeaderOf(response[1], "ETag"),
                                   HeaderOf(response[1], "Last-Modified"))
            ELSE headers' = headers
       ]_vars

\* The third request follows a 304: it carries the ETag of the 200 before, and
\* no If-Modified-Since, the Last-Modified stored being the empty string.
C15_Witness ==
  /\ pc = "request" /\ cycle = 3
  /\ Answered(HTTP_NOT_MODIFIED)
  /\ etag = <<"e1">> /\ last_modified = <<"">>
  /\ DOMAIN headers = {"If-None-Match"} /\ headers["If-None-Match"] = "e1"

\* C16: each iteration of the loop puts the id of its entry into the seen set,
\* whether or not the entry has a keyword, and an entry without keyword prints
\* nothing; a step that prints an alert is for an entry whose id was not in the
\* seen set when the payload was filtered.  An id processed once as irrelevant is
\* therefore never printed by a later payload, whatever its text then is.
C16_SeenBeforeClassified ==
  [][(pc = "process" /\ pos > 0 /\ pos' = pos - 1) =>
       LET entry == feed[new_entries[pos]]
       IN  /\ Get(entry, "id", "") \in seen_ids'
           /\ ~HasKeyword(entry) => out' = out
           /\ (out' # out /\ "id" \in DOMAIN entry) => entry.id \notin seen_at_filter
    ]_vars

\* Nothing has been printed so far; id "a" is in the seen set from an earlier
\* payload, where its entry had no keyword, and the payload at hand presents id
\* "a" with a keyword in its title: the loop is over and nothing is printed.
C16_Witness ==
  /\ pc = "process" /\ pos = 0 /\ cycle >= 2
  /\ "a" \in seen_at_filter
  /\ out = <<>>
  /\ \E i \in 1..Len(feed) :
       "id" \in DOMAIN feed[i] /\ feed[i].id = "a" /\ HasKeyword(feed[i])

\* C17: once the check of a 200 has returned, the id of each entry of its
\* payload that has one is in the seen set; when the next response is a 200
\* with the same entries, its check prints no alert for an entry that has an id.
C17_RepeatedPayloadSilent ==
  /\ (pc \in {"sleep", "request"} /\ Answered(HTTP_OK)) =>
       \A i \in 1..Len(response[1].entries) :
         "id" \in DOMAIN response[1].entries[i] =>
           response[1].entries[i].id \in seen_ids
  /\ (repeated /\ pc \in {"process", "sleep"}) =>
       \A k \in ThisCycle : "id" \notin DOMAIN response[1].entries[out[k].idx]

\* The payload with id "a" and a keyword was printed by the check before, came
\* again with a 200, and the check of the second delivery printed nothing.
C17_Witness ==
  /\ pc = "sleep" /\ repeated
  /\ \E i \in 1..Len(response[1].entries) :
       /\ "id" \in DOMAIN response[1].entries[i]
       /\ response[1].entries[i].id = "a"
       /\ HasKeyword(response[1].entries[i])
  /\ out # <<>>
  /\ ThisCycle = {}

\* A body without markup, collapsed and trimmed: its characters that are not
\* whitespace, in order, with one space for each whitespace run that lies
\* between two of them.
Collapsed(body) ==
  LET solid == {i \in 1..Len(body) : body[i] \notin Whitespace}
      Kept(i) == \/ i \in solid
                 \/ /\ i - 1 \in solid
                    /\ \E j \in solid : j > i
      kept == SelectSeq([i \in 1..Len(body) |-> i], Kept)
  IN  [k \in 1..Len(kept) |-> IF kept[k] \in solid THEN body[kept[k]] ELSE " "]
MarkupFree(body) == \A i \in 1..Len(body) : body[i] # "<"
\* the body of the entry an alert was printed for
AlertBody(k) == entry_body(response[1].entries[out[k].idx])
AlertTitle(k) == Get(response[1].entries[out[k].idx], "title", <<>>)
Truncated(text) ==
  [i \in 1..(TruncateLen + 1) |-> IF i <= TruncateLen THEN text[i] ELSE Ellipsis]

\* C13 as stated: for a body without markup the status is the collapsed,
\* trimmed body when that has at most 300 characters, and its first 300
\* characters and one marker otherwise; a body of LongBody characters gives 300
\* characters and the marker.
C13_StatusIsCleanedBody ==
  \A k \in ThisCycle :
    MarkupFree(AlertBody(k)) =>
      LET text == Collapsed(AlertBody(k))
      IN  /\ Len(text) <= TruncateLen => out[k].status = text
          /\ Len(text) > TruncateLen => out[k].status = Truncated(text)
          /\ Len(AlertBody(k)) = LongBody =>
               /\ Len(out[k].status) = TruncateLen + 1
               /\ out[k].status[TruncateLen + 1] = Ellipsis

\* C13 amended: for a body without markup whose collapsed, trimmed form is not
\* empty, the status is that form when it has at most 300 characters, and its
\* first 300 characters and one marker otherwise; when the form is empty the
\* status is the title.  A body of LongBody characters gives 300 characters and
\* the marker when its collapsed, trimmed form has more than 300.
C13_StatusTruncation ==
  \A k \in ThisCycle :
    MarkupFree(AlertBody(k)) =>
      LET text == Collapsed(AlertBody(k))
      IN  /\ text = <<>> => out[k].status = AlertTitle(k)
          /\ (text # <<>> /\ Len(text) <= TruncateLen) => out[k].status = text
          /\ Len(text) > TruncateLen => out[k].status = Truncated(text)
          /\ (Len(AlertBody(k)) = LongBody /\ Len(text) > TruncateLen) =>
               /\ Len(out[k].status) = TruncateLen + 1
               /\ out[k].status[TruncateLen + 1] = Ellipsis

\* An alert for a body of LongBody characters in words, which collapsed and
\* trimmed keeps more than 300: the status has 301 characters, the marker last.
C13_Witness ==
  /\ out # <<>>
  /\ \E k \in ThisCycle :
       /\ Len(AlertBody(k)) = LongBody
       /\ \E i \in 1..LongBody : AlertBody(k)[i] \in Whitespace
       /\ Len(out[k].status) = TruncateLen + 1
       /\ out[k].status[TruncateLen + 1] = Ellipsis
       /\ \A i \in 1..TruncateLen : out[k].status[i] = Collapsed(AlertBody(k))[i]

====
